---- MODULE Spec2Model ----
(***************************************************************************)
(* Archy: the Tab Directory (tabManager) and the view-hierarchy lifecycle  *)
(* manager (WebContentsViewManager), with the IPC handlers that drive them.*)
(*                                                                         *)
(* JavaScript runs one handler at a time.  An `await` is a yield point:    *)
(* closeTab is split at its awaits, a continuation that is ready to run    *)
(* (a queued microtask) runs before any new handler is dispatched, and the *)
(* settlement of webContents.close() is an event of the environment.       *)
(*                                                                         *)
(* Layout: the manager applies rectangles to the navbar, the overlay and   *)
(* every content view from the window's content size and its own flags.    *)
(* Platform-conditional calls are those of macOS.  The overlay page        *)
(* (OverlayApp) keeps its own settings/search flags and asks the main      *)
(* process to show or hide the overlay view.                               *)
(*                                                                         *)
(* Zoom: factors are JavaScript numbers in the code.  Here the global      *)
(* default is held in hundredths (100 is 1.0), a domain's offset in tenths *)
(* (10 is 1.0, 0 is "no entry") and a factor applied to a view in          *)
(* thousandths (1000 is 1.0), so default * offset is the applied factor.   *)
(* The defaults used are multiples of ten, which keeps every percentage    *)
(* away from a rounding boundary.                                          *)
(***************************************************************************)
EXTENDS Integers, Sequences, FiniteSets, TLC

\* ---------------------------------------------------------------- bounds
MaxTabs == 3
MaxInFlight == 2
MaxThrows == 1
MaxZoomTabs == 2
MaxZoomSteps == 1
MaxMetaTabs == 2
MaxDetachedTabs == 1
MaxCss == 2

\* ------------------------------------------------------------- constants
Null == 0
NavBarView == 101
OverlayView == 102
DefaultUrl == "file://quick-access.html"
ExampleUrl == "https://example.com"
Urls == {"", ExampleUrl}
NavUrls == {ExampleUrl}
TabIds == 1..MaxTabs
NAVBAR_FULL_HEIGHT == 38
NAVBAR_HIDDEN_HEIGHT == 0
DefaultSize == << 700, 600 >>
WinSizes == {DefaultSize, << 1000, 800 >>, << 250, 200 >>}
ExampleHost == "example.com"
\* Stands for a getURL() that `new URL` rejects: the empty URL of a view
\* that has not committed a page yet.
NoHost == "invalid URL"
Hosts == {ExampleHost}
ExamplePageUrl == "https://example.com/page"
PageUrls == {ExampleUrl, ExamplePageUrl}
NewTabTitle == "New Tab"
Titles == {"Example", "Example Page"}
\* A key that Object.entries(pending.data) does not list.
Unset == "unset"
NoData == [url |-> Unset, title |-> Unset]
NoPending == [data |-> NoData, timer |-> "none", tabIndex |-> 0]
DefaultGlobalZoom == 100
SessionZooms == {DefaultGlobalZoom, 250}
ZoomArgs == {30, 150}

VARIABLES
  tabs,           \* tabManager: ordered list of tabs, << [id, url, title] >>
  activeTabId,    \* tabManager: active tab id or Null
  nextTabId,      \* tabManager: next id to hand out
  contentViews,   \* viewManager: Map tabId -> view, as its key order
  vmActiveTabId,  \* viewManager: this.activeTabId
  visible,        \* viewManager: tab ids whose view has its visible flag set
  children,       \* browserWindow.contentView.children, bottom to top
  listeners,      \* viewManager: keys of this.listeners
  overlayMode,    \* viewManager: this.overlayMode ("none" is null)
  overlayLoaded,  \* the overlay's did-finish-load has fired
  showNav,        \* viewManager: this.showNav
  isFullscreen,   \* viewManager: this.isFullscreen
  winSize,        \* browserWindow.getContentSize(), << width, height >>
  navBounds,      \* rectangle last applied to the navbar view
  overlayBounds,  \* rectangle last applied to the overlay view
  viewBounds,     \* per tab id: rectangle last applied to its view
  settingsShown,  \* OverlayApp: state.settingsShown
  searchShown,    \* OverlayApp: state.searchShown
  isDetachedMode, \* windowManager: isDetachedMode
  navbarVisibleBeforeDetached,  \* windowManager: same name
  isWindowVisible,      \* windowManager: isWindowVisible
  detachedModeCssKeys,  \* viewManager: tab ids that have a CSS key stored
  cssInFlight,    \* per tab id: insertCSS calls whose promise is pending
  injectedCss,    \* per tab id: detached style sheets in its page
  pendingUpdates, \* tabManager: tab id -> [data, timer, tabIndex]
  defaultZoomFactor,    \* viewManager: this.defaultZoomFactor, hundredths
  zoomOffsetsByDomain,  \* viewManager: hostname -> offset in tenths, 0 none
  zoomFactor,     \* per tab id: factor applied to its webContents
  pageHost,       \* per tab id: hostname of webContents.getURL(), or NoHost
  domReadyZoom,   \* per tab id: default captured for the first dom-ready
  wc,             \* per tab id: state of the view's webContents handle
  closers,        \* closeTab / cleanup calls suspended at an await
  windowClosed,   \* the window's 'close' event has been delivered
  effects,        \* calls and messages made by the last handler, in order
  lastOp          \* the last handler that ran, its argument and its result

vars == << tabs, activeTabId, nextTabId, contentViews, vmActiveTabId, visible,
           children, listeners, overlayMode, overlayLoaded, showNav,
           isFullscreen, winSize, navBounds, overlayBounds, viewBounds,
           settingsShown, searchShown, isDetachedMode, defaultZoomFactor,
           zoomOffsetsByDomain, zoomFactor, pageHost, domReadyZoom, wc,
           navbarVisibleBeforeDetached, isWindowVisible, detachedModeCssKeys,
           cssInFlight, injectedCss, pendingUpdates,
           closers, windowClosed, effects, lastOp >>

\* --------------------------------------------------------------- helpers
Min(a, b) == IF a < b THEN a ELSE b

Max(a, b) == IF a > b THEN a ELSE b

Rect(x, y, width, height) ==
  [x |-> x, y |-> y, width |-> width, height |-> height]

\* The bounds of a view that has never been given any.
NoRect == Rect(0, 0, 0, 0)

Has(seq, x) == \E i \in 1..Len(seq) : seq[i] = x

Remove(seq, x) == SelectSeq(seq, LAMBDA e : e # x)

RemoveAtSlice(seq, i) == seq

\* Array.prototype.splice(i, 1), with i counted from 1.
RemoveAt(seq, i) == SubSeq(seq, 1, i - 1) \o SubSeq(seq, i + 1, Len(seq))

Ids(ts) == [i \in 1..Len(ts) |-> ts[i].id]

IdSet(ts) == {ts[i].id : i \in 1..Len(ts)}

SeqSet(seq) == {seq[i] : i \in 1..Len(seq)}

IndexOf(ts, t) ==
  IF \E i \in 1..Len(ts) : ts[i].id = t
  THEN CHOOSE i \in 1..Len(ts) : ts[i].id = t
  ELSE 0

Fx(k, t) == [k |-> k, t |-> t, list |-> <<>>, act |-> Null]

Op(name, t, ret) == [name |-> name, tab |-> t, ret |-> ret]

\* The view manager's fields, the webContents handles and the effects the
\* running handler has produced so far, threaded through the methods below.
World ==
  [contentViews |-> contentViews, activeTabId |-> vmActiveTabId,
   visible |-> visible, children |-> children, listeners |-> listeners,
   wc |-> wc, showNav |-> showNav, isFullscreen |-> isFullscreen,
   overlayMode |-> overlayMode, winSize |-> winSize, navBounds |-> navBounds,
   overlayBounds |-> overlayBounds, viewBounds |-> viewBounds,
   defaultZoomFactor |-> defaultZoomFactor,
   zoomOffsetsByDomain |-> zoomOffsetsByDomain, zoomFactor |-> zoomFactor,
   pageHost |-> pageHost, domReadyZoom |-> domReadyZoom, fx |-> <<>>]

\* ------------------------------------------------- WebContentsViewManager
NavHeightIgnoringFullscreen(w) ==
  IF w.showNav THEN NAVBAR_FULL_HEIGHT ELSE NAVBAR_HIDDEN_HEIGHT

\* `this.isFullscreen ? 0 : (this.showNav ? FULL : HIDDEN)`
NavHeight(w) ==
  IF w.isFullscreen THEN 0
  ELSE IF w.showNav THEN NAVBAR_FULL_HEIGHT ELSE NAVBAR_HIDDEN_HEIGHT

CalculateBoundsFullHeight(w) ==
  LET navHeight == NavHeight(w) IN
  Rect(0, navHeight, w.winSize[1], w.winSize[2])

CalculateBounds(w) ==
  LET navHeight == NavHeight(w) IN
  Rect(0, navHeight, w.winSize[1], w.winSize[2] - navHeight)

UpdateNavBarBounds(w) ==
  [w EXCEPT !.navBounds = Rect(0, 0, w.winSize[1], NavHeight(w)),
            !.fx = @ \o << Fx("setBounds", NavBarView) >>]

\* updateOverlayBounds: the whole window, for settings.
UpdateOverlayBounds(w) ==
  [w EXCEPT !.overlayBounds = Rect(0, 0, w.winSize[1], w.winSize[2]),
            !.overlayMode = "settings",
            !.fx = @ \o << Fx("setBounds", OverlayView) >>]

SetOverlaySearchBounds(w) ==
  LET windowWidth == w.winSize[1]
      availableWidth == windowWidth - 30
      searchBarWidth == Min(450, Max(280, availableWidth))
      searchBarX == Max(0, windowWidth - searchBarWidth - 10)
  IN [w EXCEPT !.overlayBounds = Rect(searchBarX, 38, searchBarWidth, 100),
               !.overlayMode = "search",
               !.fx = @ \o << Fx("setBounds", OverlayView) >>]

SetOverlayDragBarBounds(w) ==
  [w EXCEPT !.overlayBounds = Rect(0, 0, w.winSize[1], 15),
            !.overlayMode = "dragbar",
            !.fx = @ \o << Fx("setBounds", OverlayView) >>]

UpdateViewBounds(w, t) ==
  [w EXCEPT !.viewBounds = [@ EXCEPT ![t] = CalculateBounds(w)],
            !.fx = @ \o << Fx("setBounds", t) >>]

\* The overlay's rectangle is recomputed for the mode it is in.
UpdateOverlayForMode(w) ==
  IF w.overlayMode = "settings" THEN UpdateOverlayBounds(w)
  ELSE IF w.overlayMode = "search" THEN SetOverlaySearchBounds(w)
  ELSE IF w.overlayMode = "dragbar" THEN SetOverlayDragBarBounds(w)
  ELSE w

UpdateVisibleViewBounds(w) ==
  LET w2 == UpdateOverlayForMode(UpdateNavBarBounds(w))
      contentBounds == CalculateBounds(w2)
      shown == SelectSeq(w2.contentViews, LAMBDA t : t \in w2.visible)
  IN [w2 EXCEPT
       !.viewBounds = [t \in DOMAIN @ |->
                         IF t \in w2.visible /\ Has(w2.contentViews, t)
                         THEN contentBounds ELSE @[t]],
       !.fx = @ \o [i \in 1..Len(shown) |-> Fx("setBounds", shown[i])]]

\* updateAllViewBounds: navbar, overlay (by mode), then every content view.
UpdateAllViewBounds(w) ==
  LET w2 == UpdateOverlayForMode(UpdateNavBarBounds(w))
      contentBounds == CalculateBounds(w2)
  IN [w2 EXCEPT
       !.viewBounds = [t \in DOMAIN @ |->
                         IF Has(w2.contentViews, t) THEN contentBounds
                         ELSE @[t]],
       !.fx = @ \o [i \in 1..Len(w2.contentViews) |->
                      Fx("setBounds", w2.contentViews[i])]]

ShowFullscreenDragBar(w) ==
  IF w.overlayMode \notin {"none", "dragbar"} THEN w
  ELSE LET w1 == IF Has(w.children, OverlayView) THEN w
                 ELSE [w EXCEPT !.children = Append(@, OverlayView),
                                !.fx = @ \o << Fx("addChildView", OverlayView) >>]
           w2 == SetOverlayDragBarBounds(w1)
       IN [w2 EXCEPT
            !.fx = @ \o << Fx("send.fullscreen.dragbar.show", OverlayView) >>]

HideFullscreenDragBar(w) ==
  IF w.overlayMode # "dragbar" THEN w
  ELSE LET w1 == IF Has(w.children, OverlayView)
                 THEN [w EXCEPT !.children = Remove(@, OverlayView),
                                !.fx = @ \o << Fx("removeChildView", OverlayView) >>]
                 ELSE w
       IN [w1 EXCEPT
            !.overlayMode = "none",
            !.fx = @ \o << Fx("send.fullscreen.dragbar.hide", OverlayView) >>]

SetNavBarVisibleBodyStale(w, v) ==
  LET w1 == [w EXCEPT !.showNav = v]
      w2 == IF ~v THEN ShowFullscreenDragBar(w1) ELSE HideFullscreenDragBar(w1)
      w3 == IF ~v THEN UpdateAllViewBounds(w2) ELSE w2
  IN [w3 EXCEPT !.fx = @ \o << Fx("emit.navbar-visibility-changed", Null) >>]

\* setNavBarVisible past its guard.
SetNavBarVisibleBody(w, v) ==
  LET w1 == [w EXCEPT !.showNav = v]
      w2 == IF ~v THEN ShowFullscreenDragBar(w1) ELSE HideFullscreenDragBar(w1)
      w3 == UpdateAllViewBounds(w2)
  IN [w3 EXCEPT !.fx = @ \o << Fx("emit.navbar-visibility-changed", Null) >>]

SetNavBarVisibleUnguarded(w, v) == SetNavBarVisibleBody(w, v)

SetNavBarVisible(w, v) ==
  IF w.showNav = v THEN w ELSE SetNavBarVisibleBody(w, v)

\* enterFullscreen past its guard.
EnterFullscreenBody(w) ==
  LET w1 == [w EXCEPT !.isFullscreen = TRUE]
      w3 == UpdateAllViewBounds(ShowFullscreenDragBar(w1))
  IN [w3 EXCEPT !.fx = @ \o << Fx("emit.fullscreen-entered", Null) >>]

EnterFullscreenUnguarded(w) == EnterFullscreenBody(w)

EnterFullscreen(w) == IF w.isFullscreen THEN w ELSE EnterFullscreenBody(w)

LeaveFullscreenShowsNav(w) ==
  IF ~w.isFullscreen THEN w
  ELSE LET w1 == [w EXCEPT !.isFullscreen = FALSE, !.showNav = TRUE]
           w3 == UpdateAllViewBounds(HideFullscreenDragBar(w1))
       IN [w3 EXCEPT !.fx = @ \o << Fx("emit.fullscreen-left", Null) >>]

LeaveFullscreen(w) ==
  IF ~w.isFullscreen THEN w
  ELSE LET w1 == [w EXCEPT !.isFullscreen = FALSE]
           w3 == UpdateAllViewBounds(HideFullscreenDragBar(w1))
       IN [w3 EXCEPT !.fx = @ \o << Fx("emit.fullscreen-left", Null) >>]

\* createView: the new view is the first one (`this.contentViews.size > 0`
\* is false).
FirstView(w) == Len(w.contentViews) = 0

CreateView(w, t) ==
  IF Has(w.contentViews, t) THEN w
  ELSE LET first == FirstView(w)
           w1 == [w EXCEPT
                   !.children = Append(Remove(@, t), t),
                   !.wc = [@ EXCEPT ![t] = "live"],
                   !.fx = @ \o << Fx("new.WebContentsView", t),
                                  Fx("addChildView", t) >>]
           w2 == UpdateViewBounds(w1, t)
       IN [w2 EXCEPT
            !.visible = IF first THEN @ \cup {t} ELSE @ \ {t},
            !.activeTabId = IF first THEN t ELSE @,
            !.contentViews = Append(@, t),
            !.listeners = @ \cup {t},
            !.domReadyZoom = [@ EXCEPT ![t] = w.defaultZoomFactor * 10],
            !.fx = @ \o (IF first THEN <<>> ELSE << Fx("setVisible.false", t) >>)
                     \o << Fx("wc.loadURL", t) >>]

\* switchToTab without `oldView.setVisible(false)`.
VmSwitchToTabKeepsOld(w, t) ==
  IF ~Has(w.contentViews, t) THEN w
  ELSE IF w.activeTabId = t THEN w
  ELSE [w EXCEPT
         !.visible = @ \cup {t},
         !.children = Append(Remove(@, t), t),
         !.activeTabId = t,
         !.fx = @ \o << Fx("addChildView", t), Fx("setVisible.true", t),
                        Fx("emit.tab-switched", t) >>]

VmSwitchToTab(w, t) ==
  IF ~Has(w.contentViews, t) THEN w
  ELSE IF w.activeTabId = t THEN w
  ELSE LET old == w.activeTabId
           hide == old # Null /\ Has(w.contentViews, old)
       IN [w EXCEPT
            !.visible = (IF hide THEN @ \ {old} ELSE @) \cup {t},
            !.children = Append(Remove(@, t), t),
            !.activeTabId = t,
            !.fx = @ \o (IF hide THEN << Fx("setVisible.false", old) >> ELSE <<>>)
                     \o << Fx("addChildView", t), Fx("setVisible.true", t),
                           Fx("emit.tab-switched", t) >>]

\* closeTab after the await: drop the reference, pick a replacement.
VmCloseTabFinish(w, t) ==
  LET w1 == [w EXCEPT !.contentViews = Remove(@, t), !.visible = @ \ {t}]
      w2 == IF w1.activeTabId = t
            THEN IF Len(w1.contentViews) > 0
                 THEN VmSwitchToTab(w1, w1.contentViews[1])
                 ELSE [w1 EXCEPT !.activeTabId = Null]
            ELSE w1
  IN [w2 EXCEPT !.fx = @ \o << Fx("emit.tab-closed", t) >>]

CleanupViewListeners(w, t) ==
  IF t \notin w.listeners THEN w
  ELSE [w EXCEPT !.listeners = @ \ {t},
                 !.fx = @ \o << Fx("removeListeners", t) >>]

RemoveChildView(w, t) ==
  [w EXCEPT !.children = Remove(@, t),
            !.fx = @ \o << Fx("removeChildView", t) >>]

Destroy(w, t) ==
  [w EXCEPT !.wc = [@ EXCEPT ![t] = "gone"],
            !.fx = @ \o << Fx("wc.destroy", t) >>]

DetachThenUnlisten(w, t) == CleanupViewListeners(RemoveChildView(w, t), t)

\* closeTab: remove the view's listeners, then take it off the window.
UnlistenAndDetach(w, t) == RemoveChildView(CleanupViewListeners(w, t), t)

\* closeTab up to its await.  outcome is what webContents.close() does when
\* called: "pending" (returns, settles later) or "throws".
VmCloseTabBegin(w, t, outcome) ==
  IF ~Has(w.contentViews, t) THEN w
  ELSE LET w2 == UnlistenAndDetach(w, t)
           w3 == [w2 EXCEPT !.fx = @ \o << Fx("wc.close", t) >>]
       IN IF outcome = "throws"
          THEN VmCloseTabFinish(Destroy(w3, t), t)
          ELSE [w3 EXCEPT !.wc = [@ EXCEPT ![t] =
                              IF @ = "live" THEN "closing" ELSE @]]

VmSuspends(w, t, outcome) == Has(w.contentViews, t) /\ outcome = "pending"

\* closeTab resumed by the settlement of webContents.close().
VmCloseTabResume(w, t, result) ==
  LET w1 == IF result = "rejected" THEN Destroy(w, t)
            ELSE [w EXCEPT !.wc = [@ EXCEPT ![t] =
                              IF @ = "closing" THEN "gone" ELSE @]]
  IN VmCloseTabFinish(w1, t)

GetActiveView(w) ==
  IF w.activeTabId = Null THEN Null
  ELSE IF Has(w.contentViews, w.activeTabId) THEN w.activeTabId ELSE Null

\* ------------------------------------------------------------------- zoom
\* `this.zoomOffsetsByDomain.get(hostname) || 1.0`
GetOffset(w, h) ==
  IF w.zoomOffsetsByDomain[h] = 0 THEN 10 ELSE w.zoomOffsetsByDomain[h]

\* `this.defaultZoomFactor * offset`, in thousandths.
FinalZoom(factor, offset) == factor * offset

\* `Math.round(finalZoom * 100)`: halves go up.
RoundPercent(zoom) == (zoom + 5) \div 10

ZoomChanged(zoom) ==
  [k |-> "send.zoom.changed", t |-> NavBarView, list |-> <<>>,
   act |-> RoundPercent(zoom)]

SetZoomFactor(w, t, zoom) ==
  [w EXCEPT !.zoomFactor = [@ EXCEPT ![t] = zoom],
            !.fx = @ \o << Fx("wc.setZoomFactor", t) >>]

\* zoomIn / zoomOut with a parseable URL: the domain's offset becomes
\* newOffset, the view gets default * newOffset, the navbar is told.
ZoomByOffset(w, v, newOffset) ==
  LET h == w.pageHost[v]
      w1 == [w EXCEPT !.zoomOffsetsByDomain = [@ EXCEPT ![h] = newOffset]]
      finalZoom == FinalZoom(w1.defaultZoomFactor, newOffset)
      w2 == SetZoomFactor(w1, v, finalZoom)
  IN [w2 EXCEPT !.fx = @ \o << ZoomChanged(finalZoom) >>]

ZoomInUnclamped(w) ==
  LET v == GetActiveView(w) IN
  IF v = Null THEN w
  ELSE IF w.pageHost[v] # NoHost
  THEN ZoomByOffset(w, v, GetOffset(w, w.pageHost[v]) + 1)
  ELSE SetZoomFactor(w, v, w.zoomFactor[v] + 100)

ZoomIn(w) ==
  LET v == GetActiveView(w) IN
  IF v = Null THEN w
  ELSE IF w.pageHost[v] # NoHost
  THEN ZoomByOffset(w, v, Min(30, GetOffset(w, w.pageHost[v]) + 1))
  ELSE SetZoomFactor(w, v, Min(3000, w.zoomFactor[v] + 100))

ZoomOut(w) ==
  LET v == GetActiveView(w) IN
  IF v = Null THEN w
  ELSE IF w.pageHost[v] # NoHost
  THEN ZoomByOffset(w, v, Max(3, GetOffset(w, w.pageHost[v]) - 1))
  ELSE SetZoomFactor(w, v, Max(500, w.zoomFactor[v] - 100))

ZoomResetKeepsEntry(w) ==
  LET v == GetActiveView(w) IN
  IF v = Null THEN w
  ELSE LET resetZoom == FinalZoom(w.defaultZoomFactor, 10)
           w2 == SetZoomFactor(w, v, resetZoom)
       IN [w2 EXCEPT !.fx = @ \o << ZoomChanged(resetZoom) >>]

ZoomReset(w) ==
  LET v == GetActiveView(w) IN
  IF v = Null THEN w
  ELSE LET h == w.pageHost[v]
           w1 == IF h # NoHost
                 THEN [w EXCEPT !.zoomOffsetsByDomain = [@ EXCEPT ![h] = 0]]
                 ELSE w
           resetZoom == FinalZoom(w1.defaultZoomFactor, 10)
           w2 == SetZoomFactor(w1, v, resetZoom)
       IN [w2 EXCEPT !.fx = @ \o << ZoomChanged(resetZoom) >>]

\* The factor a view gets for the page at host h: default * offset, or the
\* default alone when the URL does not parse.
ZoomForHost(w, h) ==
  IF h # NoHost THEN FinalZoom(w.defaultZoomFactor, GetOffset(w, h))
  ELSE FinalZoom(w.defaultZoomFactor, 10)

RestoreZoomForDomain(w, t, h) == SetZoomFactor(w, t, ZoomForHost(w, h))

RECURSIVE ApplyZoomToViews(_, _)
ApplyZoomToViews(w, ids) ==
  IF ids = <<>> THEN w
  ELSE LET t == Head(ids) IN
       ApplyZoomToViews(SetZoomFactor(w, t, ZoomForHost(w, w.pageHost[t])),
                        Tail(ids))

\* setDefaultZoomFactor: clamp to [0.5, 2.0], then every registered view.
SetDefaultZoomFactor(w, factor) ==
  ApplyZoomToViews([w EXCEPT !.defaultZoomFactor = Max(50, Min(200, factor))],
                   w.contentViews)

\* ----------------------------------------------------------------- state
InitExceptZoom ==
  /\ tabs = <<>>
  /\ activeTabId = Null
  /\ nextTabId = 1
  /\ contentViews = <<>>
  /\ vmActiveTabId = Null
  /\ visible = {}
  /\ children = << NavBarView, OverlayView >>
  /\ listeners = {}
  /\ overlayMode = "settings"
  /\ overlayLoaded = FALSE
  /\ showNav = TRUE
  /\ isFullscreen = FALSE
  /\ winSize = DefaultSize
  /\ navBounds = Rect(0, 0, DefaultSize[1], NAVBAR_FULL_HEIGHT)
  /\ overlayBounds = Rect(0, 0, DefaultSize[1], DefaultSize[2])
  /\ viewBounds = [t \in TabIds |-> NoRect]
  /\ settingsShown = FALSE
  /\ searchShown = FALSE
  /\ isDetachedMode = FALSE
  /\ navbarVisibleBeforeDetached = TRUE
  /\ isWindowVisible = TRUE
  /\ detachedModeCssKeys = {}
  /\ cssInFlight = [t \in TabIds |-> 0]
  /\ injectedCss = [t \in TabIds |-> 0]
  /\ pendingUpdates = [t \in TabIds |-> NoPending]
  /\ wc = [t \in TabIds |-> "none"]
  /\ closers = {}
  /\ windowClosed = FALSE
  /\ effects = <<>>
  /\ lastOp = Op("init", Null, "ok")
  /\ zoomOffsetsByDomain = [h \in Hosts |-> 0]
  /\ zoomFactor = [t \in TabIds |-> 1000]
  /\ pageHost = [t \in TabIds |-> NoHost]
  /\ domReadyZoom = [t \in TabIds |-> 0]

\* A first start: globalZoom has its initial value.
Init ==
  /\ InitExceptZoom
  /\ defaultZoomFactor = DefaultGlobalZoom

\* A start that restores globalZoom from the saved session.
InitRestored ==
  /\ InitExceptZoom
  /\ \E globalZoom \in SessionZooms : defaultZoomFactor = globalZoom

SetWorld(w) ==
  /\ contentViews' = w.contentViews
  /\ vmActiveTabId' = w.activeTabId
  /\ visible' = w.visible
  /\ children' = w.children
  /\ listeners' = w.listeners
  /\ wc' = w.wc
  /\ showNav' = w.showNav
  /\ isFullscreen' = w.isFullscreen
  /\ overlayMode' = w.overlayMode
  /\ winSize' = w.winSize
  /\ navBounds' = w.navBounds
  /\ overlayBounds' = w.overlayBounds
  /\ viewBounds' = w.viewBounds
  /\ defaultZoomFactor' = w.defaultZoomFactor
  /\ zoomOffsetsByDomain' = w.zoomOffsetsByDomain
  /\ zoomFactor' = w.zoomFactor
  /\ pageHost' = w.pageHost
  /\ domReadyZoom' = w.domReadyZoom

WorldUnchanged ==
  UNCHANGED << contentViews, vmActiveTabId, visible, children, listeners, wc,
               showNav, isFullscreen, overlayMode, winSize, navBounds,
               overlayBounds, viewBounds, defaultZoomFactor,
               zoomOffsetsByDomain, zoomFactor, pageHost, domReadyZoom >>

\* The timer of updateTab has thrown: the 'uncaughtException' handler of the
\* main process logs, saves the session and throws the error again, which
\* ends the process.
HostCrashed == lastOp.name = "updateTab.flush" /\ lastOp.ret = "threw"

\* A new handler is dispatched only when no continuation is queued and the
\* window is still there to send commands.
HandlerReady ==
  /\ ~HostCrashed
  /\ ~windowClosed
  /\ \A c \in closers : c.pc # "ready"

\* Bound on the createTab calls whose surface creation throws: the ids
\* handed out that never got a webContents.
MayThrow ==
  Cardinality({t \in TabIds : t < nextTabId /\ wc[t] = "none"}) < MaxThrows

\* Bound on the closeTab / cleanup calls suspended at the same time.
MayStartClose == Cardinality(closers) < MaxInFlight

TabsUpdate(ts, act) ==
  [k |-> "tabs.update", t |-> Null, list |-> Ids(ts), act |-> act]

NotifyRenderer ==
  IF showNav
  THEN << Fx("setWindowButtonVisibility.true", Null),
          Fx("nav.show", Null), Fx("nav.focus", Null) >>
  ELSE <<>>

\* ------------------------------------------------------------ tabManager
\* createTab: throws is whether `new WebContentsView` throws in createView.
CreateTab(url, throws) ==
  /\ HandlerReady
  /\ nextTabId <= MaxTabs
  /\ throws => MayThrow
  /\ LET tabId == nextTabId
         tab == [id |-> tabId, url |-> IF url = "" THEN DefaultUrl ELSE url,
                 title |-> NewTabTitle]
         w == CreateView(World, tabId)
     IN /\ nextTabId' = nextTabId + 1
        /\ tabs' = Append(tabs, tab)
        /\ activeTabId' = tabId
        /\ IF throws
           THEN /\ WorldUnchanged
                /\ effects' = << Fx("tabs.push", tabId),
                                 Fx("throw.WebContentsView", tabId) >>
                /\ lastOp' = Op("createTab", tabId, "threw")
           ELSE /\ SetWorld(w)
                /\ effects' = << Fx("tabs.push", tabId) >> \o w.fx
                                \o << TabsUpdate(tabs', tabId) >> \o NotifyRenderer
                /\ lastOp' = Op("createTab", tabId, "ok")
  /\ UNCHANGED << overlayLoaded, pendingUpdates,
                  navbarVisibleBeforeDetached, isWindowVisible,
                  detachedModeCssKeys, cssInFlight, injectedCss, settingsShown, searchShown,
                  isDetachedMode, closers, windowClosed >>

SwitchToTab(tabId) ==
  /\ HandlerReady
  /\ IF tabId \notin IdSet(tabs)
     THEN /\ UNCHANGED activeTabId
          /\ WorldUnchanged
          /\ effects' = <<>>
          /\ lastOp' = Op("switchToTab", Null, "false")
     ELSE LET w == VmSwitchToTab(World, tabId) IN
          /\ activeTabId' = tabId
          /\ SetWorld(w)
          /\ effects' = w.fx \o << TabsUpdate(tabs, tabId) >>
          /\ lastOp' = Op("switchToTab", tabId, "true")
  /\ UNCHANGED << tabs, nextTabId, overlayLoaded, pendingUpdates,
                  navbarVisibleBeforeDetached, isWindowVisible,
                  detachedModeCssKeys, cssInFlight, injectedCss, settingsShown, searchShown,
                  isDetachedMode,
                  closers, windowClosed >>

\* closeTab up to `await viewManager.closeTab(tabId)`.
CloseTab(tabId, outcome) ==
  /\ HandlerReady
  /\ MayStartClose
  /\ LET tabIndex == IndexOf(tabs, tabId) IN
     IF tabIndex = 0
     THEN /\ UNCHANGED << tabs, closers >>
          /\ WorldUnchanged
          /\ effects' = <<>>
          /\ lastOp' = Op("closeTab", Null, "false")
     ELSE LET w == VmCloseTabBegin(World, tabId, outcome) IN
          /\ tabs' = RemoveAt(tabs, tabIndex)
          /\ SetWorld(w)
          /\ closers' = closers \cup
               {[owner |-> "tm", tab |-> tabId, tabIndex |-> tabIndex,
                 rest |-> <<>>,
                 pc |-> IF VmSuspends(World, tabId, outcome)
                        THEN "await_close" ELSE "ready"]}
          /\ effects' = << Fx("tabs.splice", tabId) >> \o w.fx
          /\ lastOp' = Op("closeTab", tabId, "pending")
  /\ UNCHANGED << activeTabId, nextTabId, overlayLoaded, pendingUpdates,
                  navbarVisibleBeforeDetached, isWindowVisible,
                  detachedModeCssKeys, cssInFlight, injectedCss, settingsShown, searchShown,
                  isDetachedMode,
                  windowClosed >>

\* webContents.close() settles; viewManager.closeTab runs to its end and the
\* caller's continuation is queued.
CloseSettles(c, result) ==
  /\ ~HostCrashed
  /\ c \in closers
  /\ c.pc = "await_close"
  /\ \A d \in closers : d.pc # "ready"
  /\ LET w == VmCloseTabResume(World, c.tab, result) IN
     /\ SetWorld(w)
     /\ effects' = w.fx
  /\ closers' = (closers \ {c}) \cup {[c EXCEPT !.pc = "ready"]}
  /\ lastOp' = Op("closeTab.settled", c.tab, result)
  /\ UNCHANGED << tabs, activeTabId, nextTabId, overlayLoaded, pendingUpdates,
                  navbarVisibleBeforeDetached, isWindowVisible,
                  detachedModeCssKeys, cssInFlight, injectedCss, settingsShown, searchShown,
                  isDetachedMode, windowClosed >>

NewActiveIndexFirst(tabIndex, len) == 1

\* Index (from 1) of the tab that becomes active when the active tab, which
\* was at tabIndex, has been closed and len tabs remain.
NewActiveIndex(tabIndex, len) == Min(tabIndex, len)

\* closeTab after `await viewManager.closeTab(tabId)`.
CloseTabResume(c) ==
  /\ ~HostCrashed
  /\ c \in closers
  /\ c.owner = "tm"
  /\ c.pc = "ready"
  /\ closers' = closers \ {c}
  /\ IF activeTabId = c.tab
     THEN IF Len(tabs) > 0
          THEN LET newActive == tabs[NewActiveIndex(c.tabIndex, Len(tabs))].id
                   w == VmSwitchToTab(World, newActive)
               IN /\ activeTabId' = newActive
                  /\ SetWorld(w)
                  /\ effects' = w.fx \o << TabsUpdate(tabs, newActive) >>
          ELSE /\ activeTabId' = Null
               /\ WorldUnchanged
               /\ effects' = << TabsUpdate(tabs, Null) >>
     ELSE /\ UNCHANGED activeTabId
          /\ WorldUnchanged
          /\ effects' = << TabsUpdate(tabs, activeTabId) >>
  /\ lastOp' = Op("closeTab.done", c.tab, "true")
  /\ UNCHANGED << tabs, nextTabId, overlayLoaded, pendingUpdates,
                  navbarVisibleBeforeDetached, isWindowVisible,
                  detachedModeCssKeys, cssInFlight, injectedCss, settingsShown, searchShown,
                  isDetachedMode,
                  windowClosed >>

NavigateTab(tabId, url) ==
  /\ HandlerReady
  /\ LET i == IndexOf(tabs, tabId) IN
     IF i = 0
     THEN /\ UNCHANGED tabs
          /\ effects' = <<>>
          /\ lastOp' = Op("navigateTab", Null, "false")
     ELSE /\ tabs' = [tabs EXCEPT ![i].url = url]
          /\ effects' = << TabsUpdate(tabs', activeTabId) >>
          /\ lastOp' = Op("navigateTab", tabId, "true")
  /\ WorldUnchanged
  /\ UNCHANGED << activeTabId, nextTabId, overlayLoaded, pendingUpdates,
                  navbarVisibleBeforeDetached, isWindowVisible,
                  detachedModeCssKeys, cssInFlight, injectedCss, settingsShown, searchShown,
                  isDetachedMode,
                  closers, windowClosed >>

\* ------------------------------------------------- window close / cleanup
\* One turn of cleanup's loop: `await this.closeTab(tabId)` for the first id
\* of ids, up to the await.
CleanupTurn(ids, outcome) ==
  LET t == Head(ids)
      w == VmCloseTabBegin(World, t, outcome)
  IN /\ SetWorld(w)
     /\ effects' = w.fx
     /\ closers' = {c \in closers : c.owner # "cleanup"} \cup
          {[owner |-> "cleanup", tab |-> t, tabIndex |-> 0, rest |-> Tail(ids),
            pc |-> IF VmSuspends(World, t, outcome)
                   THEN "await_close" ELSE "ready"]}

\* browserWindow 'close': cleanup() up to its first await.
Cleanup(outcome) ==
  /\ HandlerReady
  /\ MayStartClose
  /\ windowClosed' = TRUE
  /\ IF contentViews = <<>>
     THEN /\ WorldUnchanged
          /\ UNCHANGED closers
          /\ effects' = << Fx("removeAllListeners", Null) >>
     ELSE CleanupTurn(contentViews, outcome)
  /\ lastOp' = Op("cleanup", Null, "pending")
  /\ UNCHANGED << tabs, activeTabId, nextTabId, overlayLoaded, pendingUpdates,
                  navbarVisibleBeforeDetached, isWindowVisible,
                  detachedModeCssKeys, cssInFlight, injectedCss, settingsShown, searchShown,
                  isDetachedMode >>

\* cleanup() after an await: the next turn of the loop, or the end.
CleanupResume(c, outcome) ==
  /\ ~HostCrashed
  /\ c \in closers
  /\ c.owner = "cleanup"
  /\ c.pc = "ready"
  /\ IF c.rest = <<>>
     THEN /\ WorldUnchanged
          /\ closers' = closers \ {c}
          /\ effects' = << Fx("removeAllListeners", Null) >>
          /\ lastOp' = Op("cleanup.done", Null, "ok")
     ELSE /\ CleanupTurn(c.rest, outcome)
          /\ lastOp' = Op("cleanup.next", Head(c.rest), "pending")
  /\ UNCHANGED << tabs, activeTabId, nextTabId, overlayLoaded, pendingUpdates,
                  navbarVisibleBeforeDetached, isWindowVisible,
                  detachedModeCssKeys, cssInFlight, injectedCss, settingsShown, searchShown,
                  isDetachedMode, windowClosed >>

\* ------------------------------------------------------------ ipcHandler
\* 'tab.reload': reload the view registered under tabId, if any.
TabReload(tabId) ==
  /\ HandlerReady
  /\ effects' = IF Has(contentViews, tabId)
                THEN << Fx("wc.reload", tabId) >> ELSE <<>>
  /\ lastOp' = Op("tab.reload", Null, "ok")
  /\ WorldUnchanged
  /\ UNCHANGED << tabs, activeTabId, nextTabId, overlayLoaded, pendingUpdates,
                  navbarVisibleBeforeDetached, isWindowVisible,
                  detachedModeCssKeys, cssInFlight, injectedCss, settingsShown, searchShown,
                  isDetachedMode, closers, windowClosed >>

\* 'search.find': findInPage on the active view, if any.
SearchFind ==
  /\ HandlerReady
  /\ LET v == GetActiveView(World) IN
     effects' = IF v # Null THEN << Fx("wc.findInPage", v) >> ELSE <<>>
  /\ lastOp' = Op("search.find", Null, "ok")
  /\ WorldUnchanged
  /\ UNCHANGED << tabs, activeTabId, nextTabId, overlayLoaded, pendingUpdates,
                  navbarVisibleBeforeDetached, isWindowVisible,
                  detachedModeCssKeys, cssInFlight, injectedCss, settingsShown, searchShown,
                  isDetachedMode, closers, windowClosed >>

\* The overlay's 'did-finish-load': take it off the layer stack.
OverlayDidFinishLoad ==
  /\ ~HostCrashed
  /\ ~overlayLoaded
  /\ \A c \in closers : c.pc # "ready"
  /\ overlayLoaded' = TRUE
  /\ children' = Remove(children, OverlayView)
  /\ overlayMode' = "none"
  /\ effects' = << Fx("removeChildView", OverlayView) >>
  /\ lastOp' = Op("overlay.did-finish-load", Null, "ok")
  /\ UNCHANGED << tabs, activeTabId, nextTabId, contentViews, vmActiveTabId,
                  visible, listeners, showNav, wc, closers, windowClosed,
                  isFullscreen, winSize, navBounds, overlayBounds, viewBounds,
                  settingsShown, searchShown, isDetachedMode,
                  defaultZoomFactor, zoomOffsetsByDomain, zoomFactor,
                  pageHost, domReadyZoom, pendingUpdates,
                  navbarVisibleBeforeDetached, isWindowVisible,
                  detachedModeCssKeys, cssInFlight, injectedCss >>

\* ------------------------------------------------------ navbar visibility
LayoutFrame ==
  UNCHANGED << tabs, activeTabId, nextTabId, overlayLoaded, pendingUpdates,
                  navbarVisibleBeforeDetached, isWindowVisible,
                  detachedModeCssKeys, cssInFlight, injectedCss, settingsShown,
               searchShown, isDetachedMode, closers, windowClosed >>

WasNoOp(changed) == IF changed THEN "changed" ELSE "noop"

\* 'nav.hide': hide the navbar, hide the window buttons, tell the renderer.
NavHide ==
  /\ HandlerReady
  /\ LET w == SetNavBarVisible(World, FALSE) IN
     /\ SetWorld(w)
     /\ effects' = w.fx \o << Fx("setWindowButtonVisibility.false", Null),
                              Fx("send.nav.hide", Null) >>
  /\ lastOp' = Op("nav.hide", Null, WasNoOp(showNav))
  /\ LayoutFrame

NavShow ==
  /\ HandlerReady
  /\ LET w == SetNavBarVisible(World, TRUE) IN
     /\ SetWorld(w)
     /\ effects' = w.fx \o << Fx("setWindowButtonVisibility.true", Null),
                              Fx("send.nav.show", Null) >>
  /\ lastOp' = Op("nav.show", Null, WasNoOp(~showNav))
  /\ LayoutFrame

NavToggle ==
  /\ HandlerReady
  /\ LET newVisible == ~showNav
         w == SetNavBarVisible(World, newVisible)
     IN /\ SetWorld(w)
        /\ effects' = w.fx \o
             (IF newVisible
              THEN << Fx("setWindowButtonVisibility.true", Null),
                      Fx("send.nav.show", NavBarView) >>
              ELSE << Fx("setWindowButtonVisibility.false", Null),
                      Fx("send.nav.hide", NavBarView) >>)
  /\ lastOp' = Op("nav.toggle", Null, "changed")
  /\ LayoutFrame

\* ------------------------------------------------------------- fullscreen
\* 'enter-html-full-screen' from the content of tab t.
EnterHtmlFullScreen(t) ==
  /\ HandlerReady
  /\ t \in listeners
  /\ LET w == EnterFullscreen(World) IN
     /\ SetWorld(w)
     /\ effects' = w.fx \o << Fx("send.fullscreen.enter", NavBarView),
                              Fx("setWindowButtonVisibility.false", Null) >>
  /\ lastOp' = Op("enter-html-full-screen", Null, WasNoOp(~isFullscreen))
  /\ LayoutFrame

\* 'leave-html-full-screen' from the content of tab t.
LeaveHtmlFullScreen(t) ==
  /\ HandlerReady
  /\ t \in listeners
  /\ LET w == LeaveFullscreen(World) IN
     /\ SetWorld(w)
     /\ effects' = w.fx \o << Fx("send.fullscreen.leave", NavBarView) >>
                       \o (IF w.showNav
                           THEN << Fx("setWindowButtonVisibility.true", Null) >>
                           ELSE <<>>)
  /\ lastOp' = Op("leave-html-full-screen", Null, WasNoOp(isFullscreen))
  /\ LayoutFrame

\* The window's 'resize' (a user resize, or the window going to or from the
\* platform's own fullscreen): the content size is size from now on.
Resize(size) ==
  /\ HandlerReady
  /\ size # winSize
  /\ LET w == UpdateAllViewBounds([World EXCEPT !.winSize = size]) IN
     /\ SetWorld(w)
     /\ effects' = w.fx
  /\ lastOp' = Op("resize", Null, "ok")
  /\ LayoutFrame

\* ---------------------------------------------------------------- overlay
OverlayHideKeepsView(w) == [w EXCEPT !.overlayMode = "none"]

\* 'overlay.mouse-events' with shouldShow false.
OverlayHide(w) ==
  [RemoveChildView(w, OverlayView) EXCEPT !.overlayMode = "none"]

OverlayShowKeepsBounds(w, mode) ==
  [w EXCEPT !.children = Append(Remove(@, OverlayView), OverlayView),
            !.fx = @ \o << Fx("addChildView", OverlayView) >>]

\* 'overlay.mouse-events' with shouldShow true.
OverlayShow(w, mode) ==
  LET w1 == IF mode = "settings" THEN UpdateOverlayBounds(w)
            ELSE IF mode = "search" THEN SetOverlaySearchBounds(w)
            ELSE w
  IN [w1 EXCEPT !.children = Append(Remove(@, OverlayView), OverlayView),
                !.fx = @ \o << Fx("addChildView", OverlayView) >>]

\* 'search.clear': stopFindInPage on the active view, if any.
SearchClear(w) ==
  LET v == GetActiveView(w) IN
  IF v = Null THEN w
  ELSE [w EXCEPT !.fx = @ \o << Fx("wc.stopFindInPage", v) >>]

OverlayFrame ==
  UNCHANGED << tabs, activeTabId, nextTabId, overlayLoaded, isDetachedMode,
               pendingUpdates, navbarVisibleBeforeDetached, isWindowVisible,
                  detachedModeCssKeys, cssInFlight, injectedCss,
               closers, windowClosed >>

\* OverlayApp.handleSettingsToggle and the command it sends.
SettingsToggle ==
  /\ HandlerReady
  /\ LET w == IF settingsShown THEN OverlayHide(World)
              ELSE OverlayShow(World, "settings")
     IN /\ SetWorld(w)
        /\ effects' = w.fx
  /\ settingsShown' = ~settingsShown
  /\ searchShown' = IF settingsShown THEN searchShown ELSE FALSE
  /\ lastOp' = Op("settings.toggle", Null,
                  IF settingsShown THEN "hidden"
                  ELSE IF searchShown THEN "switched" ELSE "shown")
  /\ OverlayFrame

\* OverlayApp.handleSearchToggle and the commands it sends.
SearchToggle ==
  /\ HandlerReady
  /\ LET w == IF searchShown THEN OverlayHide(SearchClear(World))
              ELSE OverlayShow(World, "search")
     IN /\ SetWorld(w)
        /\ effects' = w.fx
  /\ searchShown' = ~searchShown
  /\ settingsShown' = IF searchShown THEN settingsShown ELSE FALSE
  /\ lastOp' = Op("search.toggle", Null,
                  IF searchShown THEN "hidden"
                  ELSE IF settingsShown THEN "switched" ELSE "shown")
  /\ OverlayFrame

\* OverlayApp.closeSettings, offered while the settings panel is rendered.
CloseSettings ==
  /\ HandlerReady
  /\ settingsShown
  /\ LET w == OverlayHide(World) IN
     /\ SetWorld(w)
     /\ effects' = w.fx
  /\ settingsShown' = FALSE
  /\ UNCHANGED searchShown
  /\ lastOp' = Op("closeSettings", Null, "hidden")
  /\ OverlayFrame

\* OverlayApp.closeSearch, offered while the search bar is rendered.
CloseSearch ==
  /\ HandlerReady
  /\ searchShown
  /\ LET w == OverlayHide(SearchClear(World)) IN
     /\ SetWorld(w)
     /\ effects' = w.fx
  /\ searchShown' = FALSE
  /\ UNCHANGED settingsShown
  /\ lastOp' = Op("closeSearch", Null, "hidden")
  /\ OverlayFrame

\* ------------------------------------------------------------------- zoom
TabsFrame ==
  UNCHANGED << tabs, activeTabId, nextTabId, overlayLoaded, pendingUpdates,
                  navbarVisibleBeforeDetached, isWindowVisible,
                  detachedModeCssKeys, cssInFlight, injectedCss, settingsShown,
               searchShown, isDetachedMode, closers, windowClosed >>

\* 'zoom.in'
ZoomInCmd ==
  /\ HandlerReady
  /\ LET w == ZoomIn(World) IN SetWorld(w) /\ effects' = w.fx
  /\ lastOp' = Op("zoom.in", Null, "ok")
  /\ TabsFrame

\* 'zoom.out'
ZoomOutCmd ==
  /\ HandlerReady
  /\ LET w == ZoomOut(World) IN SetWorld(w) /\ effects' = w.fx
  /\ lastOp' = Op("zoom.out", Null, "ok")
  /\ TabsFrame

\* 'zoom.reset'
ZoomResetCmd ==
  /\ HandlerReady
  /\ LET w == ZoomReset(World) IN SetWorld(w) /\ effects' = w.fx
  /\ lastOp' = Op("zoom.reset", Null, "ok")
  /\ TabsFrame

\* setGlobalZoom(zoom): zoom is a percentage.
SetGlobalZoom(zoom) ==
  /\ HandlerReady
  /\ LET w == SetDefaultZoomFactor(World, zoom) IN
     SetWorld(w) /\ effects' = w.fx
  /\ lastOp' = Op("setGlobalZoom", zoom, "ok")
  /\ TabsFrame

\* The first 'dom-ready' of tab t's page: the listener createView registered
\* with once() applies the default it captured.
DomReady(t) ==
  /\ HandlerReady
  /\ wc[t] = "live"
  /\ pageHost[t] # NoHost
  /\ domReadyZoom[t] # 0
  /\ LET w1 == SetZoomFactor(World, t, domReadyZoom[t])
         w == [w1 EXCEPT !.domReadyZoom = [@ EXCEPT ![t] = 0]]
     IN SetWorld(w) /\ effects' = w.fx
  /\ lastOp' = Op("dom-ready", t, "ok")
  /\ TabsFrame

\* --------------------------------------------------------- tab metadata
\* `new URL(url).hostname` for the page URLs used here; the empty URL of a
\* view with no committed page does not parse.
HostOf(url) == IF url \in PageUrls THEN ExampleHost ELSE NoHost

\* updateTab(tabId, {key: value}): merge into the pending data of the tab
\* and start the 64 ms timer, which captures tabIndex, unless one is set.
UpdateTab(ts, pu, tabId, key, value) ==
  LET tabIndex == IndexOf(ts, tabId) IN
  IF tabIndex = 0 THEN pu
  ELSE LET pending == pu[tabId]
           data == [pending.data EXCEPT ![key] = value]
       IN [pu EXCEPT ![tabId] =
             IF pending.timer = "none"
             THEN [data |-> data, timer |-> "set", tabIndex |-> tabIndex]
             ELSE [pending EXCEPT !.data = data]]

\* `for (const [key, value] of Object.entries(pending.data)) tab[key] = value`
ApplyData(tab, data) ==
  [tab EXCEPT !.url = IF data.url # Unset THEN data.url ELSE @,
              !.title = IF data.title # Unset THEN data.title ELSE @]

MetaFrame ==
  UNCHANGED << activeTabId, nextTabId, overlayLoaded, settingsShown,
               searchShown, isDetachedMode, navbarVisibleBeforeDetached, isWindowVisible,
                  detachedModeCssKeys, cssInFlight, injectedCss,
               closers, windowClosed >>

\* 'did-navigate' of tab t's webContents: the page at url has committed.
DidNavigate(t, url) ==
  /\ HandlerReady
  /\ t \in listeners
  /\ wc[t] = "live"
  /\ pendingUpdates' = UpdateTab(tabs, pendingUpdates, t, "url", url)
  /\ LET w0 == [World EXCEPT !.pageHost = [@ EXCEPT ![t] = HostOf(url)]]
         w == RestoreZoomForDomain(w0, t, HostOf(url))
     IN /\ SetWorld(w)
        /\ effects' = << Fx("emit.tab-update", t) >> \o w.fx
                        \o << Fx("emit.tab-navigated", t) >>
  /\ lastOp' = Op("did-navigate", t, url)
  /\ UNCHANGED tabs
  /\ MetaFrame

\* 'page-title-updated' of tab t's webContents.
PageTitleUpdated(t, title) ==
  /\ HandlerReady
  /\ t \in listeners
  /\ wc[t] = "live"
  /\ pendingUpdates' = UpdateTab(tabs, pendingUpdates, t, "title", title)
  /\ effects' = << Fx("emit.tab-update", t), Fx("emit.tab-title-updated", t) >>
  /\ lastOp' = Op("page-title-updated", t, title)
  /\ UNCHANGED tabs
  /\ WorldUnchanged
  /\ MetaFrame

\* The timer updateTab started for tab t fires.  It writes to the tab now at
\* the index captured when it was set; with no tab there, `tab[key]` throws
\* before pendingUpdates.delete(tabId).
FlushUpdate(t) ==
  /\ ~HostCrashed
  /\ \A c \in closers : c.pc # "ready"
  /\ pendingUpdates[t].timer = "set"
  /\ LET pending == pendingUpdates[t]
         tabIndex == pending.tabIndex
     IN IF tabIndex > Len(tabs)
        THEN /\ UNCHANGED tabs
             /\ pendingUpdates' = [pendingUpdates EXCEPT ![t].timer = "fired"]
             /\ effects' = << Fx("throw.TypeError", t) >>
             /\ lastOp' = Op("updateTab.flush", t, "threw")
        ELSE LET tab == tabs[tabIndex]
                 hasChanges == ApplyData(tab, pending.data) # tab
             IN /\ tabs' = [tabs EXCEPT ![tabIndex] = ApplyData(tab, pending.data)]
                /\ pendingUpdates' = [pendingUpdates EXCEPT ![t] = NoPending]
                /\ effects' = IF hasChanges
                              THEN << TabsUpdate(tabs', activeTabId) >>
                              ELSE <<>>
                /\ lastOp' = Op("updateTab.flush", t,
                                IF hasChanges THEN "sent" ELSE "quiet")
  /\ WorldUnchanged
  /\ MetaFrame


\* ---------------------------------------------------------- detached mode
DetachedFrame ==
  UNCHANGED << tabs, activeTabId, nextTabId, overlayLoaded, settingsShown,
               searchShown, pendingUpdates, closers, windowClosed >>

\* Bound on the style sheets a view has or is about to get.
MayInsertCss ==
  \A t \in SeqSet(contentViews) : cssInFlight[t] + injectedCss[t] < MaxCss

InsertCssFx(ids) == [i \in 1..Len(ids) |-> Fx("insertCSS", ids[i])]

RemoveCssFx(ids) ==
  [i \in 1..Len(ids) |-> Fx("removeInsertedCSS", ids[i])]

\* setDetachedModeForAllTabs(enabled): insertCSS on every view, its key
\* stored when the promise resolves; or removeInsertedCSS of every stored key.
SetDetachedModeForAllTabs(enabled) ==
  IF enabled
  THEN /\ cssInFlight' = [t \in TabIds |->
            IF Has(contentViews, t) THEN cssInFlight[t] + 1 ELSE cssInFlight[t]]
       /\ UNCHANGED << detachedModeCssKeys, injectedCss >>
  ELSE /\ injectedCss' = [t \in TabIds |->
            IF Has(contentViews, t) /\ t \in detachedModeCssKeys
            THEN Max(0, injectedCss[t] - 1) ELSE injectedCss[t]]
       /\ detachedModeCssKeys' = detachedModeCssKeys \ SeqSet(contentViews)
       /\ UNCHANGED cssInFlight

KeyedViews ==
  SelectSeq(contentViews, LAMBDA t : t \in detachedModeCssKeys)

\* The promise of an insertCSS call on tab t's page settles.
InsertCssSettles(t, result) ==
  /\ ~HostCrashed
  /\ \A c \in closers : c.pc # "ready"
  /\ cssInFlight[t] > 0
  /\ cssInFlight' = [cssInFlight EXCEPT ![t] = @ - 1]
  /\ IF result = "resolved"
     THEN /\ injectedCss' = [injectedCss EXCEPT ![t] = @ + 1]
          /\ detachedModeCssKeys' = detachedModeCssKeys \cup {t}
     ELSE UNCHANGED << injectedCss, detachedModeCssKeys >>
  /\ effects' = <<>>
  /\ lastOp' = Op("insertCSS.settled", t, result)
  /\ WorldUnchanged
  /\ UNCHANGED << isDetachedMode, navbarVisibleBeforeDetached, isWindowVisible >>
  /\ DetachedFrame

RestoreNavBarAlways(w, remembered) == SetNavBarVisible(w, TRUE)

\* toggleDetachedMode, leaving: `if (navbarVisibleBeforeDetached)
\* setNavBarVisible(true)`.
RestoreNavBar(w, remembered) ==
  IF remembered THEN SetNavBarVisible(w, TRUE) ELSE w

\* toggleDetachedMode, from the detached-mode shortcut.  The window's opacity
\* is set and restored; its value is not tracked.
ToggleDetachedMode ==
  /\ HandlerReady
  /\ isDetachedMode' = ~isDetachedMode
  /\ IF ~isDetachedMode
     THEN /\ MayInsertCss
          /\ navbarVisibleBeforeDetached' = showNav
          /\ LET w == IF showNav THEN SetNavBarVisible(World, FALSE) ELSE World IN
             /\ SetWorld(w)
             /\ effects' = << Fx("setOpacity.detached", Null) >> \o w.fx
                  \o (IF showNav THEN << Fx("send.nav.hide", NavBarView) >>
                      ELSE <<>>)
                  \o << Fx("setIgnoreMouseEvents.true", Null) >>
                  \o InsertCssFx(contentViews)
                  \o << Fx("send.detached.enter", Null),
                        Fx("setWindowButtonVisibility.false", Null) >>
          /\ SetDetachedModeForAllTabs(TRUE)
          /\ lastOp' = Op("toggleDetachedMode", Null, "entered")
     ELSE /\ UNCHANGED navbarVisibleBeforeDetached
          /\ LET w == RestoreNavBar(World, navbarVisibleBeforeDetached) IN
             /\ SetWorld(w)
             /\ effects' = << Fx("setOpacity.restore", Null) >>
                  \o RemoveCssFx(KeyedViews)
                  \o << Fx("setIgnoreMouseEvents.false", Null),
                        Fx("send.detached.exit", Null) >>
                  \o w.fx
                  \o (IF navbarVisibleBeforeDetached
                      THEN << Fx("send.nav.show", NavBarView),
                              Fx("setWindowButtonVisibility.true", Null) >>
                      ELSE <<>>)
          /\ SetDetachedModeForAllTabs(FALSE)
          /\ lastOp' = Op("toggleDetachedMode", Null, "left")
  /\ UNCHANGED isWindowVisible
  /\ DetachedFrame

\* toggleWindow, from the global shortcut: hide the window, or show it and
\* put it back into detached mode if that is active.
ToggleWindow ==
  /\ HandlerReady
  /\ isWindowVisible' = ~isWindowVisible
  /\ IF isWindowVisible
     THEN /\ WorldUnchanged
          /\ effects' = << Fx("window.hide", Null) >>
          /\ UNCHANGED << detachedModeCssKeys, cssInFlight, injectedCss >>
          /\ lastOp' = Op("toggleWindow", Null, "hidden")
     ELSE IF isDetachedMode
     THEN /\ MayInsertCss
          /\ LET w == SetNavBarVisible(World, FALSE) IN
             /\ SetWorld(w)
             /\ effects' = << Fx("window.show", Null),
                              Fx("setIgnoreMouseEvents.true", Null),
                              Fx("send.detached.restore", Null) >>
                  \o w.fx \o InsertCssFx(contentViews)
                  \o << Fx("send.nav.hide", NavBarView),
                        Fx("setWindowButtonVisibility.false", Null) >>
          /\ SetDetachedModeForAllTabs(TRUE)
          /\ lastOp' = Op("toggleWindow", Null, "shown")
     ELSE /\ WorldUnchanged
          /\ effects' = << Fx("window.show", Null) >>
          /\ UNCHANGED << detachedModeCssKeys, cssInFlight, injectedCss >>
          /\ lastOp' = Op("toggleWindow", Null, "shown")
  /\ UNCHANGED << isDetachedMode, navbarVisibleBeforeDetached >>
  /\ DetachedFrame

\* ----------------------------------------------------------- specification
CloseOutcomes == {"pending", "throws"}
SettleResults == {"resolved", "rejected"}

Continue ==
  \E c \in closers :
    \/ CloseTabResume(c)
    \/ \E o \in CloseOutcomes : CleanupResume(c, o)

Next ==
  \/ \E u \in Urls, throws \in BOOLEAN : CreateTab(u, throws)
  \/ \E t \in TabIds : SwitchToTab(t)
  \/ \E t \in TabIds, o \in CloseOutcomes : CloseTab(t, o)
  \/ \E c \in closers, r \in SettleResults : CloseSettles(c, r)
  \/ \E c \in closers : CloseTabResume(c)
  \/ \E t \in TabIds, u \in NavUrls : NavigateTab(t, u)
  \/ \E o \in CloseOutcomes : Cleanup(o)
  \/ \E c \in closers, o \in CloseOutcomes : CleanupResume(c, o)
  \/ \E t \in TabIds : TabReload(t)
  \/ SearchFind
  \/ OverlayDidFinishLoad

Spec == Init /\ [][Next]_vars

\* The layout of the window: tabs are created and switched, the navbar is
\* shown and hidden, content enters and leaves fullscreen, the window is
\* resized, settings and search are opened and closed.
LayoutNext ==
  \/ \E u \in NavUrls : CreateTab(u, FALSE)
  \/ \E t \in TabIds : SwitchToTab(t)
  \/ NavHide
  \/ NavShow
  \/ NavToggle
  \/ \E t \in TabIds : EnterHtmlFullScreen(t)
  \/ \E t \in TabIds : LeaveHtmlFullScreen(t)
  \/ \E size \in WinSizes : Resize(size)
  \/ SettingsToggle
  \/ SearchToggle
  \/ CloseSettings
  \/ CloseSearch
  \/ OverlayDidFinishLoad

LayoutSpec == Init /\ [][LayoutNext]_vars

\* The zoom ledger of one page: it commits and becomes ready, and the user
\* zooms in, out and back over the whole range of offsets.
MayCreateZoomTab == nextTabId <= MaxZoomTabs - 1

LedgerNext ==
  \/ \E u \in NavUrls : MayCreateZoomTab /\ CreateTab(u, FALSE)
  \/ ZoomInCmd
  \/ ZoomOutCmd
  \/ ZoomResetCmd
  \/ \E t \in TabIds, u \in NavUrls : DidNavigate(t, u)
  \/ \E t \in TabIds : DomReady(t)
  \/ \E t \in TabIds : FlushUpdate(t)

LedgerSpec == Init /\ [][LedgerNext]_vars

\* zoom.in is taken while it keeps the active page within MaxZoomSteps steps
\* of the offset 1.0 (of the factor 1.0 while its URL does not parse).
MayZoomIn ==
  LET v == GetActiveView(World) IN
  \/ v = Null
  \/ /\ v # Null
     /\ pageHost[v] # NoHost
     /\ GetOffset(World, pageHost[v]) < 10 + MaxZoomSteps
  \/ /\ v # Null
     /\ pageHost[v] = NoHost
     /\ zoomFactor[v] < 1000 + 100 * MaxZoomSteps

\* The global zoom: the session may have restored it and the user changes
\* it, while tabs are created and switched, pages commit and become ready,
\* and the user zooms in and resets.  The metadata timers, which touch no
\* zoom state, are left to MetaSpec.
ZoomNext ==
  \/ \E u \in NavUrls : nextTabId <= MaxZoomTabs /\ CreateTab(u, FALSE)
  \/ \E t \in TabIds : SwitchToTab(t)
  \/ MayZoomIn /\ ZoomInCmd
  \/ ZoomResetCmd
  \/ \E zoom \in ZoomArgs : SetGlobalZoom(zoom)
  \/ \E t \in TabIds, u \in NavUrls : DidNavigate(t, u)
  \/ \E t \in TabIds : DomReady(t)

ZoomSpec == InitRestored /\ [][ZoomNext]_vars

\* Tab metadata: pages commit and change their title while tabs are created
\* and closed, and the timers of updateTab fire.
MetaNext ==
  \/ \E u \in NavUrls : nextTabId <= MaxMetaTabs /\ CreateTab(u, FALSE)
  \/ \E t \in TabIds, o \in CloseOutcomes : CloseTab(t, o)
  \/ \E c \in closers, r \in SettleResults : CloseSettles(c, r)
  \/ \E c \in closers : CloseTabResume(c)
  \/ \E t \in TabIds, u \in PageUrls : DidNavigate(t, u)
  \/ \E t \in TabIds, title \in Titles : PageTitleUpdated(t, title)
  \/ \E t \in TabIds : FlushUpdate(t)

MetaSpec == Init /\ [][MetaNext]_vars

\* Detached mode: it is entered and left and the window is hidden and shown
\* while the navbar is shown, hidden and toggled.
DetachedNext ==
  \/ \E u \in NavUrls : nextTabId <= MaxDetachedTabs /\ CreateTab(u, FALSE)
  \/ ToggleDetachedMode
  \/ ToggleWindow
  \/ \E t \in TabIds, r \in SettleResults : InsertCssSettles(t, r)
  \/ NavHide
  \/ NavShow
  \/ NavToggle

DetachedSpec == Init /\ [][DetachedNext]_vars

\* The event loop always runs a queued continuation; nothing obliges the
\* content process to settle webContents.close().
LiveSpec == Spec /\ WF_vars(Continue)

\* ------------------------------------------------------------ properties
Suspended(t) == \E c \in closers : c.tab = t /\ c.pc = "await_close"

Positions(fx, k, t) == {i \in 1..Len(fx) : fx[i].k = k /\ fx[i].t = t}

TabsUpdates(fx) == {i \in 1..Len(fx) : fx[i].k = "tabs.update"}

\* C1: activeTabId is null iff the tab list is empty, and a non-null
\* activeTabId is the id of a tab in the list, in every reachable state
\* (states in which a closeTab is suspended included).
C1_ActiveIffNonEmpty ==
  /\ (activeTabId = Null) <=> (tabs = <<>>)
  /\ activeTabId # Null => activeTabId \in IdSet(tabs)

\* C2: the tab ids in the Tab Directory are exactly the tab ids that have a
\* content surface in the Surface Registry, in every reachable state.
C2_DirectoryMatchesRegistry == IdSet(tabs) = SeqSet(contentViews)

\* C3: while closeTab(t) is suspended on the graceful close, no handler other
\* than the resumption of that close acts on t's surface or puts it back on
\* the layer stack.
C3_TeardownIsInvisible ==
  [][\A t \in TabIds :
       (Suspended(t) /\ ~(lastOp'.name = "closeTab.settled" /\ lastOp'.tab = t))
         => /\ \A i \in 1..Len(effects') : effects'[i].t # t
            /\ ~Has(children', t)]_vars

\* C4: when closeTab of the active tab, removed from index i, completes and
\* tabs remain, the new active tab is the one at index min(i, length) of the
\* remaining list; with A,B,C and B active, closing B activates C.
C4_NeighborAtSameIndex ==
  [][\A c \in closers :
       (/\ c.owner = "tm" /\ c.pc = "ready"
        /\ lastOp' = Op("closeTab.done", c.tab, "true")
        /\ activeTabId = c.tab
        /\ Len(tabs) > 0)
         => /\ activeTabId' = tabs[Min(c.tabIndex, Len(tabs))].id
            /\ (c.tab = 2 /\ Ids(tabs) = << 1, 3 >>) => activeTabId' = 3]_vars

C4_Witness ==
  /\ lastOp = Op("closeTab.done", 2, "true")
  /\ Ids(tabs) = << 1, 3 >>
  /\ activeTabId = 3
  /\ Positions(effects, "emit.tab-switched", 3) # {}

\* C5: after createTab, createTab(example.com), closeTab(first id), the
\* second tab is the active one and the tabs-changed notification of the
\* close carries exactly that tab.
C5_ScenarioA ==
  (/\ lastOp = Op("closeTab.done", 1, "true")
   /\ nextTabId = 3
   /\ 2 \in IdSet(tabs)
   /\ closers = {})
    => /\ Ids(tabs) = << 2 >>
       /\ activeTabId = 2
       /\ \E i \in 1..Len(effects) :
            /\ TabsUpdates(effects) = {i}
            /\ effects[i].list = << 2 >>
            /\ effects[i].act = 2

C5_Witness ==
  /\ lastOp = Op("closeTab.done", 1, "true")
  /\ nextTabId = 3
  /\ tabs = << [id |-> 2, url |-> ExampleUrl, title |-> NewTabTitle] >>
  /\ contentViews = << 2 >>
  /\ closers = {}
  /\ activeTabId = 2

\* C6: a tab created when the directory holds no tab is active and its
\* surface visible and on the layer stack without a switchToTab; when a
\* closeTab completes leaving no tab and no close in flight, activeTabId is
\* null.
C6_FirstAndLastTab ==
  [][/\ (/\ lastOp'.name = "createTab" /\ lastOp'.ret = "ok"
         /\ tabs = <<>>)
        => /\ activeTabId' = lastOp'.tab
           /\ vmActiveTabId' = lastOp'.tab
           /\ lastOp'.tab \in visible'
           /\ Has(children', lastOp'.tab)
           /\ \A i \in 1..Len(effects') : effects'[i].k # "emit.tab-switched"
     /\ (/\ lastOp'.name = "closeTab.done"
         /\ tabs' = <<>> /\ closers' = {})
        => /\ activeTabId' = Null
           /\ vmActiveTabId' = Null]_vars

\* C7: createTab creates the surface before it appends the tab, and a
\* createTab whose surface creation throws leaves no entry for that tab in
\* the directory.
C7_SurfaceBeforeAppend ==
  (lastOp.name = "createTab" /\ lastOp.ret = "threw") =>
    /\ lastOp.tab \notin IdSet(tabs)
    /\ \A i \in Positions(effects, "tabs.push", lastOp.tab),
          j \in Positions(effects, "throw.WebContentsView", lastOp.tab) : j < i

\* C8 as stated: detach from the layer stack, then listener removal, then
\* handle close.
C8_DetachListenersClose ==
  \A k \in 1..Len(effects) :
    effects[k].k = "wc.close" =>
      \E d, l \in 1..Len(effects) :
        /\ d < l /\ l < k
        /\ effects[d] = Fx("removeChildView", effects[k].t)
        /\ effects[l] = Fx("removeListeners", effects[k].t)

\* C8 (amended): listener removal comes first, then the detach from the
\* layer stack, and only then the handle close: when the handle is closed
\* the surface has no listeners, a detach precedes the close, and every
\* listener removal of the same call precedes that detach.
C8_ListenersDetachClose ==
  \A k \in 1..Len(effects) :
    effects[k].k = "wc.close" =>
      LET t == effects[k].t IN
      /\ t \notin listeners
      /\ ~Has(children, t)
      /\ \E d \in 1..(k - 1) :
           /\ effects[d] = Fx("removeChildView", t)
           /\ \A l \in Positions(effects, "removeListeners", t) : l < d

C8_Witness ==
  \E l, d, k \in 1..Len(effects) :
    /\ l < d /\ d < k
    /\ effects[l] = Fx("removeListeners", 1)
    /\ effects[d] = Fx("removeChildView", 1)
    /\ effects[k] = Fx("wc.close", 1)

\* C9: every closeTab on an existing tab eventually ends with the surface's
\* reference dropped from the registry and its content process terminated,
\* even when the graceful close never settles.
C9_CloseEventuallyReleases ==
  \A t \in TabIds :
    (wc[t] = "closing") ~> (wc[t] = "gone" /\ ~Has(contentViews, t))

\* C10: switchTab with the id of the already-active tab changes neither
\* activeTabId nor the visible surface, and emits at most one tabs-changed.
C10_SwitchToActiveIsNoOp ==
  [][(lastOp' = Op("switchToTab", activeTabId, "true"))
       => /\ activeTabId' = activeTabId
          /\ visible' = visible
          /\ Cardinality(TabsUpdates(effects')) <= 1]_vars

\* ------------------------------------------------------ layout properties
Registered == SeqSet(contentViews)

OverlayAttached == Has(children, OverlayView)

EmitsIn(fx) == {i \in 1..Len(fx) : fx[i].k \in
                 {"emit.navbar-visibility-changed", "emit.fullscreen-entered",
                  "emit.fullscreen-left", "emit.tab-switched",
                  "emit.tab-closed"}}

SetBoundsIn(fx) == {i \in 1..Len(fx) : fx[i].k = "setBounds"}

\* C11: from any state, enterFullscreen() called twice in a row leaves the
\* same flags, applied bounds, overlay mode and attachment, and has emitted
\* the same notifications, as enterFullscreen() called once.
C11_EnterFullscreenIdempotent ==
  LET once == EnterFullscreen(World)
      twice == EnterFullscreen(once)
  IN /\ twice.isFullscreen = once.isFullscreen
     /\ twice.showNav = once.showNav
     /\ twice.navBounds = once.navBounds
     /\ twice.overlayBounds = once.overlayBounds
     /\ twice.viewBounds = once.viewBounds
     /\ twice.overlayMode = once.overlayMode
     /\ twice.children = once.children
     /\ twice.fx = once.fx

C11_Witness ==
  /\ lastOp = Op("enter-html-full-screen", Null, "noop")
  /\ isFullscreen
  /\ overlayMode = "dragbar"
  /\ EmitsIn(effects) = {}

\* C12 as stated: from any state, setNavBarVisible(false) followed by
\* setNavBarVisible(true), the window size fixed, leaves the navbar with the
\* bounds it had before the two calls.
C12_RoundTripFromAnyState ==
  LET after == SetNavBarVisible(SetNavBarVisible(World, FALSE), TRUE)
  IN after.navBounds = navBounds

\* C12 (amended): from any state in which the navbar is shown (showNav is
\* true), setNavBarVisible(false) followed by setNavBarVisible(true), the
\* window size fixed, leaves the navbar with the bounds it had before.
C12_RoundTripFromShown ==
  showNav =>
    LET hidden == SetNavBarVisible(World, FALSE)
        after == SetNavBarVisible(hidden, TRUE)
    IN /\ ~hidden.showNav
       /\ after.showNav
       /\ after.navBounds = navBounds

C12_Witness ==
  /\ lastOp = Op("nav.show", Null, "changed")
  /\ showNav
  /\ ~isFullscreen
  /\ navBounds = Rect(0, 0, winSize[1], 38)

C14_FullscreenCollapsesNavbar ==
  isFullscreen =>
    /\ navBounds.height = 0
    /\ \A t \in Registered :
         /\ viewBounds[t].y = 0
         /\ viewBounds[t].height = winSize[2]

C14_Witness ==
  /\ isFullscreen
  /\ showNav
  /\ navBounds.height = 0
  /\ Cardinality(Registered) >= 2
  /\ \A t \in Registered : viewBounds[t].y = 0

\* C15: after any sequence of resizes, navbar toggles, fullscreen
\* transitions and tab creations, every content surface in the registry,
\* visible or hidden, has applied bounds {0, h, width, height - h} for the
\* current window size and the navbar height h of the current flags.
C15_ContentBoundsCurrent ==
  LET h == IF isFullscreen THEN 0 ELSE IF showNav THEN 38 ELSE 0 IN
  \A t \in Registered :
    viewBounds[t] = Rect(0, h, winSize[1], winSize[2] - h)

C15_Witness ==
  /\ lastOp.name = "resize"
  /\ winSize = << 250, 200 >>
  /\ showNav /\ ~isFullscreen
  /\ \E t \in Registered :
       /\ t \notin visible
       /\ viewBounds[t] = Rect(0, 38, 250, 162)

\* C16: entering and leaving fullscreen, on a content request or with the
\* window (which arrives as a resize), never changes showNav; a
\* content-triggered leave with showNav false leaves the navbar hidden.
C16_FullscreenKeepsShowNav ==
  [][/\ (lastOp'.name \in {"enter-html-full-screen", "leave-html-full-screen",
                          "resize"})
        => showNav' = showNav
     /\ (lastOp'.name = "leave-html-full-screen" /\ ~showNav)
        => /\ ~showNav'
           /\ navBounds'.height = 0]_vars

C16_Witness ==
  /\ lastOp = Op("leave-html-full-screen", Null, "changed")
  /\ ~showNav
  /\ ~isFullscreen
  /\ navBounds.height = 0

\* C17: setNavBarVisible(v) while showNav already equals v changes no state
\* of the manager, applies no bounds and emits no notification.
C17_SetNavBarVisibleNoOp ==
  [][((lastOp'.name = "nav.hide" /\ ~showNav) \/
      (lastOp'.name = "nav.show" /\ showNav))
       => /\ UNCHANGED << showNav, isFullscreen, overlayMode, navBounds,
                          overlayBounds, viewBounds, children, visible >>
          /\ SetBoundsIn(effects') = {}
          /\ EmitsIn(effects') = {}
          /\ SetNavBarVisible(World, showNav) = World]_vars

C17_Witness ==
  /\ lastOp = Op("nav.hide", Null, "noop")
  /\ ~showNav
  /\ SetBoundsIn(effects) = {}

\* C18: immediately after construction the manager's state is showNav = true,
\* isFullscreen = false, overlayMode = none, detachedMode = false,
\* activeTabId = null.
C18_InitialState ==
  lastOp.name = "init" =>
    /\ showNav
    /\ ~isFullscreen
    /\ overlayMode = "none"
    /\ ~isDetachedMode
    /\ vmActiveTabId = Null

\* C19: overlayMode is none if and only if the overlay is absent from the
\* window's layer stack, in every reachable state; closing settings or
\* search takes the overlay off the stack.
C19_ModeNoneIffDetached ==
  /\ (overlayMode = "none") <=> ~OverlayAttached
  /\ (lastOp.ret = "hidden") => ~OverlayAttached

C19_Witness ==
  /\ lastOp = Op("closeSearch", Null, "hidden")
  /\ overlayLoaded
  /\ overlayMode = "none"
  /\ ~OverlayAttached

\* C20: the navbar and, when attached, the overlay are above every content
\* surface in the layer stack, the overlay topmost; createTab and switchTab
\* never place a content surface above them.
C20_ChromeAboveContent ==
  /\ \A i, j \in 1..Len(children) :
       (children[i] \in TabIds /\ children[j] \in {NavBarView, OverlayView})
         => i < j
  /\ OverlayAttached => children[Len(children)] = OverlayView

\* C21: in search mode the rectangle applied to the overlay is never wider
\* than the window, whatever the window's width.
C21_SearchWidthWithinWindow ==
  overlayMode = "search" => overlayBounds.width <= winSize[1]

\* C22: settings and search are never open at the same time; opening one
\* while the other is open closes the other, and right after an opening the
\* overlay is attached with the mode and the bounds of the one just opened.
C22_SettingsSearchExclusive ==
  [][/\ ~(settingsShown' /\ searchShown')
     /\ (lastOp'.name = "settings.toggle" /\ ~settingsShown)
        => /\ settingsShown' /\ ~searchShown'
           /\ overlayMode' = "settings"
           /\ overlayBounds' = Rect(0, 0, winSize[1], winSize[2])
           /\ Has(children', OverlayView)
     /\ (lastOp'.name = "search.toggle" /\ ~searchShown)
        => /\ searchShown' /\ ~settingsShown'
           /\ overlayMode' = "search"
           /\ LET width == Min(450, Max(280, winSize[1] - 30)) IN
              overlayBounds' = Rect(Max(0, winSize[1] - width - 10), 38,
                                    width, 100)
           /\ Has(children', OverlayView)]_vars

C22_Witness ==
  /\ lastOp = Op("search.toggle", Null, "switched")
  /\ searchShown /\ ~settingsShown
  /\ overlayMode = "search"
  /\ overlayBounds.height = 100

RECURSIVE ZoomInTimes(_, _)
\* n calls of zoomIn in a row; each call's result is computed before the
\* next call is made.
ZoomInTimes(w, n) ==
  IF n = 0 THEN w
  ELSE LET next == ZoomIn(w) IN
       IF next.zoomFactor = next.zoomFactor /\ next.fx = next.fx
       THEN ZoomInTimes(next, n - 1) ELSE w

\* C23: after any sequence of zoomIn, zoomOut and zoomReset every offset the
\* ledger stores lies in [0.3, 3.0], and 50 zoomIn calls in a row on a page
\* whose domain has no entry (the default) leave its offset at exactly 3.0.
C23_OffsetsClamped ==
  /\ \A h \in Hosts : zoomOffsetsByDomain[h] # 0 => zoomOffsetsByDomain[h] \in 3..30
  /\ LET v == GetActiveView(World) IN
     (v # Null /\ pageHost[v] # NoHost /\ zoomOffsetsByDomain[pageHost[v]] = 0)
       => ZoomInTimes(World, 50).zoomOffsetsByDomain[pageHost[v]] = 30

\* zoom.in has run with the offset at its upper limit.
C23_Witness ==
  /\ lastOp.name = "zoom.in"
  /\ zoomOffsetsByDomain[ExampleHost] = 30
  /\ ZoomIn(World).zoomOffsetsByDomain[ExampleHost] = 30

\* C24: zoomIn three times and then zoomReset on the same domain leave the
\* active surface at exactly defaultFactor * 1.0 and the domain without a
\* ledger entry.
C24_ResetAfterThreeZoomIns ==
  LET v == GetActiveView(World)
      w == ZoomReset(ZoomIn(ZoomIn(ZoomIn(World))))
  IN (v # Null /\ pageHost[v] # NoHost)
       => /\ w.zoomFactor[v] = FinalZoom(defaultZoomFactor, 10)
          /\ w.zoomOffsetsByDomain[pageHost[v]] = 0

\* Three zoom.in from the default have run; zoom.reset comes next.
C24_Witness ==
  /\ lastOp.name = "zoom.in"
  /\ vmActiveTabId # Null
  /\ pageHost[vmActiveTabId] = ExampleHost
  /\ zoomOffsetsByDomain[ExampleHost] = 13
  /\ zoomFactor[vmActiveTabId] = 1300
  /\ ZoomReset(World).zoomFactor[vmActiveTabId] = 1000

\* C25: every zoomIn, zoomOut or zoomReset that changes the zoom applied to
\* the active surface sends zoom.changed with the resulting zoom as a
\* percentage rounded to the nearest integer.
C25_ZoomChangeNotified ==
  [][ LET v == GetActiveView(World) IN
      (/\ lastOp'.name \in {"zoom.in", "zoom.out", "zoom.reset"}
       /\ v # Null
       /\ zoomFactor'[v] # zoomFactor[v])
        => \E i \in 1..Len(effects') :
             /\ effects'[i].k = "send.zoom.changed"
             /\ effects'[i].act = RoundPercent(zoomFactor'[v]) ]_vars

\* C26: after setDefaultZoomFactor(v) every live content surface has the
\* zoom clamp(v, 0.5, 2.0) times the offset of its domain (1.0 when the
\* ledger has none), also once a surface that was loading becomes ready.
C26_DefaultFactorReachesEverySurface ==
  [][ \A zoom \in ZoomArgs :
        (\/ lastOp'.name = "setGlobalZoom" /\ lastOp'.tab = zoom
         \/ /\ lastOp.name = "setGlobalZoom" /\ lastOp.tab = zoom
            /\ lastOp'.name \in {"did-navigate", "dom-ready"})
          => \A t \in SeqSet(contentViews') :
               wc'[t] = "live" =>
                 zoomFactor'[t] =
                   FinalZoom(Max(50, Min(200, zoom)),
                             IF pageHost'[t] = NoHost \/ zoomOffsetsByDomain'[pageHost'[t]] = 0
                             THEN 10 ELSE zoomOffsetsByDomain'[pageHost'[t]]) ]_vars

\* C27: the global default zoom factor is always within [0.5, 2.0].
C27_DefaultFactorInRange == defaultZoomFactor \in 50..200

\* C28: navigateTab on an existing tab, active or not, sets the tab's url in
\* the directory and issues a load of it on the tab's content surface.
C28_NavigateLoadsSurface ==
  [][ \A t \in TabIds :
        lastOp' = Op("navigateTab", t, "true")
          => /\ \E i \in 1..Len(tabs') :
                  tabs'[i].id = t /\ tabs'[i].url \in NavUrls
             /\ \E j \in 1..Len(effects') : effects'[j] = Fx("wc.loadURL", t) ]_vars

\* C29: the metadata updates of one tab that arrive within the coalescing
\* window are flushed as a single tabs update, and after the flush the tab's
\* directory entry holds, for every field updated, the last value received.
C29_CoalescedFlush ==
  [][ \A t \in TabIds :
        (/\ pendingUpdates[t].timer = "set"
         /\ lastOp'.name = "updateTab.flush"
         /\ lastOp'.tab = t
         /\ t \in IdSet(tabs))
          => LET data == pendingUpdates[t].data
                 i == IndexOf(tabs', t)
             IN /\ Cardinality(TabsUpdates(effects')) <= 1
                /\ data.url # Unset => tabs'[i].url = data.url
                /\ data.title # Unset => tabs'[i].title = data.title
                /\ (lastOp.name = "did-navigate" /\ lastOp.tab = t)
                     => tabs'[i].url = lastOp.ret
                /\ (lastOp.name = "page-title-updated" /\ lastOp.tab = t)
                     => tabs'[i].title = lastOp.ret ]_vars

\* C30: detached mode remembers showNav when it is entered, and when it is
\* left showNav has the remembered value again, whatever ran in between.
C30_DetachedRestoresShowNav ==
  [][ /\ (~isDetachedMode /\ isDetachedMode')
           => navbarVisibleBeforeDetached' = showNav
      /\ (isDetachedMode /\ ~isDetachedMode')
           => showNav' = navbarVisibleBeforeDetached ]_vars

\* The rectangles applied to the navbar, the overlay and the registered
\* content views are the same before and after the step.
BoundsUnchanged ==
  /\ navBounds' = navBounds
  /\ overlayBounds' = overlayBounds
  /\ \A t \in SeqSet(contentViews) : viewBounds'[t] = viewBounds[t]

\* C31 as stated: entering or leaving detached mode never changes the applied
\* bounds of the navbar, the overlay or any content surface.
C31_DetachedKeepsBounds ==
  [][ isDetachedMode' # isDetachedMode => BoundsUnchanged ]_vars

\* C31 amended: entering detached mode while the navbar is hidden, and
\* leaving a detached mode that was entered while it was hidden, change no
\* applied bounds; entering with the navbar shown changes them exactly as
\* setNavBarVisible(false) does, and leaving as setNavBarVisible(true) does.
C31_DetachedChangesBoundsOnlyByNavbar ==
  [][ /\ (~isDetachedMode /\ isDetachedMode' /\ ~showNav) => BoundsUnchanged
      /\ (isDetachedMode /\ ~isDetachedMode' /\ ~navbarVisibleBeforeDetached)
           => BoundsUnchanged
      /\ (~isDetachedMode /\ isDetachedMode' /\ showNav)
           => LET w == SetNavBarVisible(World, FALSE) IN
              /\ navBounds' = w.navBounds
              /\ overlayBounds' = w.overlayBounds
              /\ viewBounds' = w.viewBounds
      /\ (isDetachedMode /\ ~isDetachedMode' /\ navbarVisibleBeforeDetached)
           => LET w == SetNavBarVisible(World, TRUE) IN
              /\ navBounds' = w.navBounds
              /\ overlayBounds' = w.overlayBounds
              /\ viewBounds' = w.viewBounds ]_vars

\* Detached mode has been left after it was entered with the navbar hidden,
\* with a content view on the window.
C31_Witness ==
  /\ lastOp = Op("toggleDetachedMode", Null, "left")
  /\ ~navbarVisibleBeforeDetached
  /\ ~showNav
  /\ contentViews # <<>>

\* C32: once detached mode has been left no injected pointer-blocking style
\* sheet remains in the page of any content surface.
C32_PointerRestoredAfterDetached ==
  ~isDetachedMode => \A t \in SeqSet(contentViews) : injectedCss[t] = 0

\* C38: while detached mode is on, every content surface has the
\* pointer-blocking style sheet in its page, or the insertCSS call that puts
\* it there under way, also a surface created after detached mode was entered.
C38_PointerDisabledWhileDetached ==
  isDetachedMode =>
    \A t \in SeqSet(contentViews) : injectedCss[t] > 0 \/ cssInFlight[t] > 0

\* C33: closeTab, switchToTab and navigateTab of a tab id that is not in the
\* directory, and the flush of a metadata update whose tab is no longer in
\* it, change nothing and raise no error.
C33_MissingTabIsNoOp ==
  [][ /\ lastOp' \in {Op("closeTab", Null, "false"),
                      Op("switchToTab", Null, "false"),
                      Op("navigateTab", Null, "false")}
           => /\ tabs' = tabs
              /\ activeTabId' = activeTabId
              /\ contentViews' = contentViews
              /\ effects' = <<>>
      /\ \A t \in TabIds :
           (/\ pendingUpdates[t].timer = "set"
            /\ lastOp'.name = "updateTab.flush"
            /\ lastOp'.tab = t
            /\ t \notin IdSet(tabs))
             => /\ tabs' = tabs
                /\ effects' = <<>> ]_vars

\* C34: whenever at least one tab exists and no closeTab is in flight, the
\* visible content surface is the surface of the directory's active tab and the
\* registry's activeTabId equals the directory's activeTabId, in particular
\* right after createTab of a second or later tab.
C34_VisibleIsDirectoryActive ==
  (tabs # <<>> /\ closers = {}) =>
    /\ vmActiveTabId = activeTabId
    /\ visible = {activeTabId}

\* C35: whenever the navbar's effective height is zero (showNav is false or
\* the window is fullscreen) and neither settings nor search is open, the
\* overlay is attached in drag-strip mode, after any sequence of navbar
\* toggles, fullscreen enter/leave and settings/search open/close.
C35_DragStripWheneverNavbarHidden ==
  (NavHeight(World) = 0 /\ ~settingsShown /\ ~searchShown) =>
    /\ OverlayAttached
    /\ overlayMode = "dragbar"

\* C36: when the coalesced update scheduled for tab id t is flushed, only the
\* directory entry whose id is t is modified; after tabs were closed between
\* scheduling and flush no other tab's entry is changed, and when t no longer
\* exists the update is discarded.
C36_FlushTouchesOnlyItsTab ==
  [][ \A t \in TabIds :
        (lastOp'.name = "updateTab.flush" /\ lastOp'.tab = t)
          => /\ Len(tabs') = Len(tabs)
             /\ \A i \in 1..Len(tabs) : tabs[i].id # t => tabs'[i] = tabs[i]
             /\ t \notin IdSet(tabs)
                  => /\ lastOp'.ret # "threw"
                     /\ TabsUpdates(effects') = {} ]_vars

\* C37: when a closeTab of the active tab completes in the Surface Registry,
\* the replacement surface it makes active is never one whose own teardown
\* (listeners removed, detached, webContents closing) has already begun, even
\* when closeTab calls overlap.
C37_ReplacementNotInTeardown ==
  [][ (/\ lastOp'.name \in {"closeTab", "closeTab.settled"}
       /\ vmActiveTabId' # vmActiveTabId
       /\ vmActiveTabId' # Null)
        => /\ wc'[vmActiveTabId'] = "live"
           /\ \A c \in closers : c.tab # vmActiveTabId' ]_vars

ShowsWindowButtons(fx) ==
  \E i \in 1..Len(fx) : fx[i] = Fx("setWindowButtonVisibility.true", Null)

\* C39: the platform window buttons are made visible only in states where
\* showNav is true and the window is neither fullscreen nor in detached mode;
\* no tab creation, navbar command or mode exit shows them otherwise.
C39_WindowButtonsOnlyWithNavbar ==
  [][ ShowsWindowButtons(effects')
        => /\ showNav'
           /\ ~isFullscreen'
           /\ ~isDetachedMode' ]_vars

\* C40: at most one content surface is visible, and whenever one is visible
\* it is the surface registered under the registry's activeTabId.
C40_OneVisibleAndItIsActive ==
  /\ Cardinality(visible) <= 1
  /\ \A t \in visible : /\ t = vmActiveTabId
                        /\ Has(contentViews, t)

C40_Witness ==
  /\ lastOp.name = "closeTab.settled"
  /\ Len(contentViews) >= 2
  /\ visible = {vmActiveTabId}
  /\ vmActiveTabId = contentViews[1]

====
